---- MODULE Spec2Model ----
(***************************************************************************)
(* Friend recommendation core of the ANPDSS flask backend:                 *)
(*   src/api/friend_api.py   FriendRecommendationAlgorithm and the friend  *)
(*                           request / unfriend resources                  *)
(*   src/model/friend.py     Friend and FriendRequest tables               *)
(*   src/model/moodmeal_mood.py, src/model/moodmeal_preferences.py         *)
(*                                                                         *)
(* Tables are sets of rows; a user's mood history is a sequence, newest    *)
(* entry first.  Python floats are modelled as exact rationals: every      *)
(* component score is an integer number of 1/UNIT, the composite score an  *)
(* integer number of 1/(100*UNIT).                                         *)
(***************************************************************************)
EXTENDS Integers, Sequences, FiniteSets, TLC

VARIABLES friends, requests, moods, prefs, resp, ops

vars == <<friends, requests, moods, prefs, resp, ops>>

(***************************************************************************)
(* Bounds of the model                                                     *)
(***************************************************************************)
\* rows of the users table are 1..NumUsers
NumUsers == 3
\* successful writes to the friends / friend_requests tables in one behaviour
MaxOps == 3
\* longest mood history a user has in the model
MaxMoods == 3
\* longest mood history SpecScore draws
MaxScoreMoods == 2
\* longest preference list of SpecOverlap
MaxListLen == 2
\* successful writes to the moods table in one behaviour of SpecMood
MaxMoodOps == 3
\* successful writes to the friends / friend_requests tables in one behaviour
\* of SpecGraph
MaxGraphOps == 5
\* send-request calls that run at the same time in SpecSend
MaxSendCalls == 2

Users == 1..NumUsers
\* a user id that has no row in the users table
GhostId == NumUsers + 1
\* receiver_id / friend_id values a caller can send; 0 stands for a missing one
IdInputs == 0..GhostId

(***************************************************************************)
(* Program constants                                                       *)
(***************************************************************************)
\* .limit(30) on the mood queries
RecentCount == 30
\* limit=10 default of get_recommendations and of the limit query argument
DefaultLimit == 10
\* shared_music[:5] and the other shared preference lists
SharedCap == 5
\* weights of the final score, in percent
W_MOOD_SCORE == 25
W_MOOD_CATEGORY == 15
W_MUSIC == 20
W_ACTIVITIES == 20
W_CUISINES == 20

(***************************************************************************)
(* Arithmetic helpers                                                      *)
(***************************************************************************)
Abs(x) == IF x < 0 THEN -x ELSE x
Max(a, b) == IF a >= b THEN a ELSE b
Min(a, b) == IF a <= b THEN a ELSE b

RECURSIVE Gcd(_, _)
Gcd(a, b) == IF b = 0 THEN a ELSE Gcd(b, a % b)

RECURSIVE LcmUpTo(_)
LcmUpTo(n) == IF n <= 1 THEN 1 ELSE (LcmUpTo(n - 1) * n) \div Gcd(LcmUpTo(n - 1), n)

Range(s) == {s[i] : i \in 1..Len(s)}

Take(s, n) == [i \in 1..Min(n, Len(s)) |-> s[i]]

RECURSIVE SumScores(_)
SumScores(ms) == IF ms = <<>> THEN 0 ELSE Head(ms).mood_score + SumScores(Tail(ms))

\* all enumerations of a finite set as a sequence without repetition
Perms(S) ==
    {s \in [1..Cardinality(S) -> S] : \A i, j \in 1..Cardinality(S) : s[i] = s[j] => i = j}

\* Python's None is the empty sequence, a value v is <<v>>
None == <<>>
Some(v) == <<v>>

(***************************************************************************)
(* Mood entries (src/model/moodmeal_mood.py)                               *)
(***************************************************************************)
MOOD_CATEGORIES ==
    << [name |-> "Stressed/Anxious", min_score |-> 0, max_score |-> 40],
       [name |-> "Tired/Low Energy", min_score |-> 41, max_score |-> 60],
       [name |-> "Happy/Neutral", min_score |-> 61, max_score |-> 80],
       [name |-> "Energetic/Excited", min_score |-> 81, max_score |-> 100] >>

\* first category whose range holds the score, 'Unknown' when none does
get_category_from_score(score) ==
    LET hits == {i \in 1..Len(MOOD_CATEGORIES) :
                    /\ MOOD_CATEGORIES[i].min_score <= score
                    /\ score <= MOOD_CATEGORIES[i].max_score}
    IN  IF hits = {} THEN "Unknown"
        ELSE MOOD_CATEGORIES[CHOOSE i \in hits : \A j \in hits : i <= j].name

\* MoodMealMood(user_id, mood_score, mood_category=None): a falsy category
\* (None or '') is replaced by the one computed from the score
MoodMealMood(mood_score, mood_category) ==
    [mood_score |-> mood_score,
     mood_category |-> IF mood_category = "" THEN get_category_from_score(mood_score)
                       ELSE mood_category]

(***************************************************************************)
(* Preferences (src/model/moodmeal_preferences.py)                         *)
(***************************************************************************)
\* MoodMealPreferences(user_id, ...): a row of moodmeal_preferences
MoodMealPreferences(user_id, cuisines, music, activities) ==
    [user_id |-> user_id, dietary |-> <<>>, allergies |-> <<>>,
     cuisines |-> cuisines, music |-> music, activities |-> activities]

\* MoodMealPreferences.query.filter_by(_user_id=u).first(): {} (None) or one row
PrefsOf(P, u) == {p \in P : p.user_id = u}

\* MoodMealMood.query.filter_by(_user_id=u).order_by(timestamp desc).limit(30)
RecentMoods(M, u) == Take(M[u], RecentCount)

(***************************************************************************)
(* Values the model draws data from                                        *)
(***************************************************************************)
\* strings that occur in preference lists
Items == {"Italian", "Mexican", "Thai", "Japanese", "italian", " Italian "}

CategoryNames == {MOOD_CATEGORIES[i].name : i \in 1..Len(MOOD_CATEGORIES)} \cup {"Unknown"}

\* every component score is a whole number of 1/UNIT: UNIT is a multiple of
\* 100 * len(user_moods) * len(other_moods) and of every size a union can have
UNIT ==
    100 * LcmUpTo(MaxMoods) * LcmUpTo(MaxMoods)
        * LcmUpTo(Max(Cardinality(Items), Cardinality(CategoryNames)))

(***************************************************************************)
(* FriendRecommendationAlgorithm (src/api/friend_api.py)                   *)
(***************************************************************************)
\* the intersection divided by len(set1)
Jaccard_OverFirst(set1, set2) ==
    IF set1 \cup set2 = {} THEN 0
    ELSE Cardinality(set1 \cap set2) * (UNIT \div Max(1, Cardinality(set1)))

\* len(set1 & set2) / len(set1 | set2), in 1/UNIT
Jaccard(set1, set2) ==
    IF set1 \cup set2 = {} THEN 0
    ELSE Cardinality(set1 \cap set2) * (UNIT \div Cardinality(set1 \cup set2))

\* the intersection divided by len(set1)
calculate_list_overlap_OverList1(list1, list2) ==
    IF list1 = <<>> \/ list2 = <<>> THEN 0
    ELSE Cardinality(Range(list1) \cap Range(list2)) * (UNIT \div Cardinality(Range(list1)))

\* the union taken as len(list1) + len(list2)
calculate_list_overlap_ByLength(list1, list2) ==
    IF list1 = <<>> \/ list2 = <<>> THEN 0
    ELSE Cardinality(Range(list1) \cap Range(list2)) * (UNIT \div (Len(list1) + Len(list2)))

calculate_list_overlap(list1, list2) ==
    IF list1 = <<>> \/ list2 = <<>> THEN 0
    ELSE Jaccard(Range(list1), Range(list2))

\* the comprehension without its filter
CategorySet_KeepEmpty(ms) == {ms[i].mood_category : i \in 1..Len(ms)}

\* set([m.mood_category for m in moods if m.mood_category])
CategorySet(ms) == {ms[i].mood_category : i \in 1..Len(ms)} \ {""}

\* the similarity without max(0, ...)
MoodScoreSimilarity_Unclamped(user_moods, other_moods) ==
    LET n1 == Len(user_moods)
        n2 == Len(other_moods)
        diff_num == Abs(SumScores(user_moods) * n2 - SumScores(other_moods) * n1)
    IN  UNIT - diff_num * (UNIT \div (100 * n1 * n2))

\* the difference of the sums of the scores in place of the averages
MoodScoreSimilarity_OfSums(user_moods, other_moods) ==
    Max(0, UNIT - Abs(SumScores(user_moods) - SumScores(other_moods)) * (UNIT \div 100))

\* max(0, 1 - abs(user_avg_score - other_avg_score) / 100), in 1/UNIT
MoodScoreSimilarity(user_moods, other_moods) ==
    LET n1 == Len(user_moods)
        n2 == Len(other_moods)
        diff_num == Abs(SumScores(user_moods) * n2 - SumScores(other_moods) * n1)
    IN  Max(0, UNIT - diff_num * (UNIT \div (100 * n1 * n2)))

MoodCategoryOverlap(user_moods, other_moods) ==
    IF CategorySet(user_moods) # {} /\ CategorySet(other_moods) # {}
    THEN Jaccard(CategorySet(user_moods), CategorySet(other_moods))
    ELSE 0

\* the scores dict; user_prefs and other_prefs are {} (None) or a one-row set
ScoreBreakdown(user_moods, other_moods, user_prefs, other_prefs) ==
    LET both_moods == user_moods # <<>> /\ other_moods # <<>>
        both_prefs == user_prefs # {} /\ other_prefs # {}
        up == CHOOSE p \in user_prefs : TRUE
        op == CHOOSE p \in other_prefs : TRUE
    IN  [mood_score |-> IF both_moods THEN MoodScoreSimilarity(user_moods, other_moods) ELSE 0,
         mood_category |-> IF both_moods THEN MoodCategoryOverlap(user_moods, other_moods) ELSE 0,
         music |-> IF both_prefs THEN calculate_list_overlap(up.music, op.music) ELSE 0,
         activities |-> IF both_prefs THEN calculate_list_overlap(up.activities, op.activities) ELSE 0,
         cuisines |-> IF both_prefs THEN calculate_list_overlap(up.cuisines, op.cuisines) ELSE 0]

\* the two mood weights exchanged
FinalScore_MoodWeightsSwapped(scores) ==
    scores.mood_score * W_MOOD_CATEGORY + scores.mood_category * W_MOOD_SCORE
        + scores.music * W_MUSIC + scores.activities * W_ACTIVITIES
        + scores.cuisines * W_CUISINES

\* final_score, in 1/(100*UNIT)
FinalScore(scores) ==
    scores.mood_score * W_MOOD_SCORE + scores.mood_category * W_MOOD_CATEGORY
        + scores.music * W_MUSIC + scores.activities * W_ACTIVITIES
        + scores.cuisines * W_CUISINES

calculate_similarity_score(user_moods, other_moods, user_prefs, other_prefs) ==
    LET scores == ScoreBreakdown(user_moods, other_moods, user_prefs, other_prefs)
    IN  [final_score |-> FinalScore(scores), scores |-> scores]

(***************************************************************************)
(* Friend and FriendRequest queries (src/model/friend.py)                  *)
(***************************************************************************)
\* the row with the ids as they are given
Friend_AsGiven(user_id1, user_id2) == [user_id1 |-> user_id1, user_id2 |-> user_id2]

\* Friend(user_id1, user_id2): the row stores the ids in ascending order
Friend(user_id1, user_id2) ==
    [user_id1 |-> Min(user_id1, user_id2), user_id2 |-> Max(user_id1, user_id2)]

\* the query comparing the ids in the order given, without min and max
are_friends_AsGiven(F, user_id1, user_id2) ==
    [user_id1 |-> user_id1, user_id2 |-> user_id2] \in F

are_friends(F, user_id1, user_id2) == Friend(user_id1, user_id2) \in F

\* the query filtered on _user_id1 only
get_friends_for_user_FirstColumn(F, user_id) ==
    {f.user_id2 : f \in {g \in F : g.user_id1 = user_id}}

get_friends_for_user(F, user_id) ==
    {IF f.user_id1 = user_id THEN f.user_id2 ELSE f.user_id1 :
        f \in {g \in F : g.user_id1 = user_id \/ g.user_id2 = user_id}}

\* FriendRequest(sender_id, receiver_id): a new row is pending
FriendRequest(sender_id, receiver_id) ==
    [sender_id |-> sender_id, receiver_id |-> receiver_id, status |-> "pending"]

\* the query filtered on _sender_id instead of _receiver_id
get_pending_requests_for_user_BySender(R, user_id) ==
    {r \in R : r.sender_id = user_id /\ r.status = "pending"}

get_pending_requests_for_user(R, user_id) ==
    {r \in R : r.receiver_id = user_id /\ r.status = "pending"}

get_sent_requests_for_user(R, user_id) == {r \in R : r.sender_id = user_id}

\* the query looking only at requests from the sender to the receiver
has_pending_request_OneWay(R, sender_id, receiver_id) ==
    \E r \in R :
        /\ r.sender_id = sender_id /\ r.receiver_id = receiver_id
        /\ r.status = "pending"

has_pending_request(R, sender_id, receiver_id) ==
    \E r \in R :
        /\ \/ r.sender_id = sender_id /\ r.receiver_id = receiver_id
           \/ r.sender_id = receiver_id /\ r.receiver_id = sender_id
        /\ r.status = "pending"

(***************************************************************************)
(* get_recommendations (src/api/friend_api.py)                             *)
(***************************************************************************)
\* the loop over sent_requests without its status test
ExcludedIds_AnyStatus(F, R, user_id) ==
    get_friends_for_user(F, user_id) \cup {user_id}
        \cup {r.receiver_id : r \in get_sent_requests_for_user(R, user_id)}
        \cup {r.sender_id : r \in get_pending_requests_for_user(R, user_id)}

ExcludedIds(F, R, user_id) ==
    get_friends_for_user(F, user_id) \cup {user_id}
        \cup {r.receiver_id : r \in {q \in get_sent_requests_for_user(R, user_id) :
                                        q.status = "pending"}}
        \cup {r.sender_id : r \in get_pending_requests_for_user(R, user_id)}

\* mood_user_ids.union(pref_user_ids)
DataUserIds(M, P) == {u \in DOMAIN M : M[u] # <<>>} \cup {p.user_id : p \in P}

\* the members of the list all_user_ids
CandidateIds(F, R, M, P, user_id) == DataUserIds(M, P) \ ExcludedIds(F, R, user_id)

\* not user_moods and not user_prefs
IsColdStart(M, P, user_id) == RecentMoods(M, user_id) = <<>> /\ PrefsOf(P, user_id) = {}

\* round(num / den, 1) for num, den >= 0, in tenths; ties go to the even digit
RoundTenths(num, den) ==
    LET q == (10 * num) \div den
        r == (10 * num) % den
    IN  IF 2 * r < den THEN q
        ELSE IF 2 * r > den THEN q + 1
        ELSE IF q % 2 = 0 THEN q ELSE q + 1

\* the list without the [:5]
SharedCapped_NoCap(S) == {S}

\* list(set(a).intersection(set(b)))[:5]: the order of a list made from a set is
\* not fixed, so the list is kept as the set of its items and the slice yields
\* any SharedCap of them
SharedCapped(S) ==
    IF Cardinality(S) <= SharedCap THEN {S}
    ELSE {T \in SUBSET S : Cardinality(T) = SharedCap}

\* the test written score >= 0
HasSimilarity_OrZero(score) == score >= 0

\* if score > 0: "include users with any similarity"
HasSimilarity(score) == score > 0

\* the dicts the loop body can append for one candidate ({} when it appends none)
ScoredEntries(M, P, user_id, other_user_id) ==
    LET user_moods == RecentMoods(M, user_id)
        user_prefs == PrefsOf(P, user_id)
        other_moods == RecentMoods(M, other_user_id)
        other_prefs == PrefsOf(P, other_user_id)
        sim == calculate_similarity_score(user_moods, other_moods, user_prefs, other_prefs)
        both_moods == user_moods # <<>> /\ other_moods # <<>>
        both_prefs == user_prefs # {} /\ other_prefs # {}
        up == CHOOSE p \in user_prefs : TRUE
        op == CHOOSE p \in other_prefs : TRUE
        shared(l1, l2) == IF both_prefs THEN Range(l1) \cap Range(l2) ELSE {}
    IN  IF other_moods = <<>> /\ other_prefs = {} THEN {}
        ELSE IF ~HasSimilarity(sim.final_score) THEN {}
        ELSE IF other_user_id \notin Users THEN {}
        ELSE {[user |-> other_user_id,
               score |-> sim.final_score,
               score_breakdown |-> sim.scores,
               shared_mood_categories |->
                   IF both_moods THEN CategorySet(user_moods) \cap CategorySet(other_moods)
                   ELSE {},
               avg_mood_score |->
                   IF both_moods
                   THEN Some(RoundTenths(SumScores(other_moods), Len(other_moods)))
                   ELSE None,
               shared_music |-> sm,
               shared_activities |-> sa,
               shared_cuisines |-> sc] :
                 sm \in SharedCapped(shared(up.music, op.music)),
                 sa \in SharedCapped(shared(up.activities, op.activities)),
                 sc \in SharedCapped(shared(up.cuisines, op.cuisines))}

\* the lists `recommendations` can be after the loop over all_user_ids
RECURSIVE RecommendationLists(_, _, _, _)
RecommendationLists(M, P, user_id, all_user_ids) ==
    IF all_user_ids = <<>> THEN {<<>>}
    ELSE LET here == ScoredEntries(M, P, user_id, Head(all_user_ids))
             rest == RecommendationLists(M, P, user_id, Tail(all_user_ids))
         IN  IF here = {} THEN rest
             ELSE {<<e>> \o t : e \in here, t \in rest}

\* a sort that places e before the entries of equal score
RECURSIVE InsertByScore_Unstable(_, _)
InsertByScore_Unstable(sorted, e) ==
    IF sorted = <<>> THEN <<e>>
    ELSE IF Head(sorted).score > e.score
         THEN <<Head(sorted)>> \o InsertByScore_Unstable(Tail(sorted), e)
         ELSE <<e>> \o sorted

\* place e behind every entry whose score is not lower
RECURSIVE InsertByScore(_, _)
InsertByScore(sorted, e) ==
    IF sorted = <<>> THEN <<e>>
    ELSE IF Head(sorted).score >= e.score
         THEN <<Head(sorted)>> \o InsertByScore(Tail(sorted), e)
         ELSE <<e>> \o sorted

\* recommendations.sort(key=lambda x: x['score'], reverse=True): a stable sort
RECURSIVE SortByScore(_)
SortByScore(recs) ==
    IF recs = <<>> THEN <<>>
    ELSE InsertByScore(SortByScore(SubSeq(recs, 1, Len(recs) - 1)), recs[Len(recs)])

\* the slice written [:limit + 1]
PySlice_OneMore(seq, limit) ==
    IF limit + 1 >= 0 THEN Take(seq, limit + 1) ELSE Take(seq, Max(0, Len(seq) + limit + 1))

\* seq[:limit]: a negative limit drops that many entries from the end
PySlice(seq, limit) ==
    IF limit >= 0 THEN Take(seq, limit) ELSE Take(seq, Max(0, Len(seq) + limit))

\* query.limit(limit).all() (SQLite): a negative LIMIT is no limit
SqlLimit(rows, limit) == IF limit >= 0 THEN Take(rows, limit) ELSE rows

\* the query without its filter
ColdRows_Unfiltered(all_user_ids) == Perms(Users)

\* User.query.filter(User.id.in_(all_user_ids)): the rows come in an order the
\* database chooses
ColdRows(all_user_ids) == Perms(Range(all_user_ids) \cap Users)

ColdEntry(user) ==
    [user |-> user, score |-> 0, shared_mood_categories |-> {}, avg_mood_score |-> None,
     shared_music |-> {}, shared_activities |-> {}, shared_cuisines |-> {}]

\* what get_recommendations can return with all_user_ids enumerated in this order:
\* the local lists and the returned list
get_recommendations(F, R, M, P, user_id, limit, all_user_ids) ==
    IF IsColdStart(M, P, user_id)
    THEN {[path |-> "cold", recommendations |-> <<>>,
           result |-> [i \in DOMAIN SqlLimit(rows, limit) |-> ColdEntry(rows[i])]] :
              rows \in ColdRows(all_user_ids)}
    ELSE {[path |-> "scored", recommendations |-> SortByScore(l),
           result |-> PySlice(SortByScore(l), limit)] :
              l \in RecommendationLists(M, P, user_id, all_user_ids)}

(***************************************************************************)
(* FriendRecommendationsAPI.get: the limit query argument                  *)
(***************************************************************************)
DigitValue ==
    [c \in {"0", "1", "2", "3", "4", "5", "6", "7", "8", "9"} |->
        CASE c = "0" -> 0 [] c = "1" -> 1 [] c = "2" -> 2 [] c = "3" -> 3 [] c = "4" -> 4
          [] c = "5" -> 5 [] c = "6" -> 6 [] c = "7" -> 7 [] c = "8" -> 8 [] c = "9" -> 9]

IsDigits(chars) == chars # <<>> /\ \A i \in 1..Len(chars) : chars[i] \in DOMAIN DigitValue

\* the strings int() accepts: digits with an optional sign
IsIntString(chars) ==
    /\ chars # <<>>
    /\ IF Head(chars) \in {"-", "+"} THEN IsDigits(Tail(chars)) ELSE IsDigits(chars)

RECURSIVE DigitsToInt(_)
DigitsToInt(chars) ==
    IF chars = <<>> THEN 0
    ELSE 10 * DigitsToInt(SubSeq(chars, 1, Len(chars) - 1)) + DigitValue[chars[Len(chars)]]

IntOf(chars) ==
    IF Head(chars) = "-" THEN 0 - DigitsToInt(Tail(chars))
    ELSE IF Head(chars) = "+" THEN DigitsToInt(Tail(chars))
    ELSE DigitsToInt(chars)

\* request.args.get('limit', 10, type=int): the default when the argument is
\* absent (None) or int() rejects it
LimitArg(arg) ==
    IF arg = None THEN DefaultLimit
    ELSE IF IsIntString(arg[1]) THEN IntOf(arg[1])
    ELSE DefaultLimit

\* values of the limit query argument the model sends
LimitArgs ==
    {None, Some(<<"a">>), Some(<<"-", "1">>), Some(<<"0">>), Some(<<"1">>), Some(<<"1", "0">>)}

(***************************************************************************)
(* Data the tables hold at the start of a behaviour.  Every history and    *)
(* preferences row can be produced by POST /mood, PUT /mood/<id> and       *)
(* POST /preferences.                                                      *)
(***************************************************************************)
NoPrefs == None
PrefLists(cuisines, music, activities) ==
    Some([cuisines |-> cuisines, music |-> music, activities |-> activities])

Profile(ms, p) == [moods |-> ms, prefs |-> p]

\* the moods and preferences tables of an assignment of profiles to users
MoodsOf(a) == [u \in Users |-> a[u].moods]
PrefsTableOf(a) ==
    {MoodMealPreferences(u, a[u].prefs[1].cuisines, a[u].prefs[1].music,
                         a[u].prefs[1].activities) :
        u \in {v \in Users : a[v].prefs # NoPrefs}}

\* no data, one mood entry, a preferences row with empty lists
SeedProfiles ==
    {Profile(<<>>, NoPrefs),
     Profile(<<MoodMealMood(70, "")>>, NoPrefs),
     Profile(<<>>, PrefLists(<<>>, <<>>, <<>>))}

(***************************************************************************)
(* Handlers                                                                *)
(***************************************************************************)
NoResponse == [kind |-> "none"]

\* the handler with a get-or-create of the requester's preferences row
Recommend_CreatesPrefs(current_user, arg) ==
    LET limit == LimitArg(arg)
    IN  \E all_user_ids \in Perms(CandidateIds(friends, requests, moods, prefs, current_user)) :
          \E out \in get_recommendations(friends, requests, moods, prefs,
                                         current_user, limit, all_user_ids) :
            /\ resp' = [kind |-> "recs", code |-> 200, user |-> current_user,
                        arg |-> arg, limit |-> limit,
                        excluded_ids |-> ExcludedIds(friends, requests, current_user),
                        all_user_ids |-> all_user_ids,
                        path |-> out.path,
                        recommendations |-> out.recommendations,
                        result |-> out.result]
            /\ prefs' = IF PrefsOf(prefs, current_user) = {}
                        THEN prefs \cup {MoodMealPreferences(current_user, <<>>, <<>>, <<>>)}
                        ELSE prefs
            /\ UNCHANGED <<friends, requests, moods, ops>>

\* GET /api/friend/recommendations?limit=arg by current_user
Recommend(current_user, arg) ==
    LET limit == LimitArg(arg)
    IN  \E all_user_ids \in Perms(CandidateIds(friends, requests, moods, prefs, current_user)) :
          \E out \in get_recommendations(friends, requests, moods, prefs,
                                         current_user, limit, all_user_ids) :
            /\ resp' = [kind |-> "recs", code |-> 200, user |-> current_user,
                        arg |-> arg, limit |-> limit,
                        excluded_ids |-> ExcludedIds(friends, requests, current_user),
                        all_user_ids |-> all_user_ids,
                        path |-> out.path,
                        recommendations |-> out.recommendations,
                        result |-> out.result]
            /\ UNCHANGED <<friends, requests, moods, prefs, ops>>

\* the handler with a constructor that accepts sender_id = receiver_id
SendRequest_AllowsSelf(current_user, receiver_id) ==
    LET message ==
            IF receiver_id = 0 THEN "Receiver ID is required"
            ELSE IF receiver_id \notin Users THEN "User not found"
            ELSE IF are_friends(friends, current_user, receiver_id)
                 THEN "Already friends with this user"
            ELSE IF has_pending_request(requests, current_user, receiver_id)
                 THEN "Friend request already pending"
            ELSE IF \E r \in requests :
                        r.sender_id = current_user /\ r.receiver_id = receiver_id
                 THEN "Failed to create friend request"
            ELSE "ok"
        code ==
            CASE message = "ok" -> 201
              [] message = "User not found" -> 404
              [] message = "Failed to create friend request" -> 500
              [] OTHER -> 400
    IN  /\ ops < MaxOps
        /\ requests' = IF code = 201
                       THEN requests \cup {FriendRequest(current_user, receiver_id)}
                       ELSE requests
        /\ ops' = IF code = 201 THEN ops + 1 ELSE ops
        /\ resp' = [kind |-> "send", code |-> code, message |-> message]
        /\ UNCHANGED <<friends, moods, prefs>>

\* POST /api/friend/request {receiver_id} by current_user
SendRequest(current_user, receiver_id) ==
    LET message ==
            IF receiver_id = 0 THEN "Receiver ID is required"
            ELSE IF receiver_id \notin Users THEN "User not found"
            ELSE IF are_friends(friends, current_user, receiver_id)
                 THEN "Already friends with this user"
            ELSE IF has_pending_request(requests, current_user, receiver_id)
                 THEN "Friend request already pending"
            ELSE IF current_user = receiver_id
                 THEN "Users cannot send friend requests to themselves"
            ELSE IF \E r \in requests :
                        r.sender_id = current_user /\ r.receiver_id = receiver_id
                 THEN "Failed to create friend request"
            ELSE "ok"
        code ==
            CASE message = "ok" -> 201
              [] message = "User not found" -> 404
              [] message = "Failed to create friend request" -> 500
              [] OTHER -> 400
    IN  /\ ops < MaxOps
        /\ requests' = IF code = 201
                       THEN requests \cup {FriendRequest(current_user, receiver_id)}
                       ELSE requests
        /\ ops' = IF code = 201 THEN ops + 1 ELSE ops
        /\ resp' = [kind |-> "send", code |-> code, message |-> message]
        /\ UNCHANGED <<friends, moods, prefs>>

\* the row FriendRequest.query.get(request_id) finds: requests are named by
\* their (sender, receiver) pair, which the unique constraint makes a key
RequestRow(sender_id, receiver_id) ==
    {r \in requests : r.sender_id = sender_id /\ r.receiver_id = receiver_id}

\* the handler marking the request accepted before it creates the friendship
RequestAction_StatusFirst(current_user, sender_id, receiver_id, action) ==
    LET row == RequestRow(sender_id, receiver_id)
        fr == CHOOSE r \in row : TRUE
        message ==
            IF action \notin {"accept", "reject"} THEN "Invalid action"
            ELSE IF row = {} THEN "Friend request not found"
            ELSE IF fr.receiver_id # current_user THEN "Unauthorized"
            ELSE IF fr.status # "pending" THEN "Friend request already processed"
            ELSE IF action = "accept"
                 THEN IF Friend(fr.sender_id, fr.receiver_id) \in friends
                      THEN "Failed to create friendship"
                      ELSE "Friend request accepted"
            ELSE "Friend request rejected"
        code ==
            CASE message \in {"Friend request accepted", "Friend request rejected"} -> 200
              [] message = "Friend request not found" -> 404
              [] message = "Unauthorized" -> 403
              [] message = "Failed to create friendship" -> 500
              [] OTHER -> 400
    IN  /\ ops < MaxOps
        /\ friends' = IF message = "Friend request accepted"
                      THEN friends \cup {Friend(fr.sender_id, fr.receiver_id)}
                      ELSE friends
        /\ requests' = IF code \in {200, 500}
                       THEN (requests \ row) \cup
                            {[fr EXCEPT !.status = IF action = "accept" THEN "accepted"
                                                   ELSE "rejected"]}
                       ELSE requests
        /\ ops' = IF code \in {200, 500} THEN ops + 1 ELSE ops
        /\ resp' = [kind |-> "action", code |-> code, message |-> message]
        /\ UNCHANGED <<moods, prefs>>

\* the handler without its test that the request is still pending
RequestAction_NoPendingTest(current_user, sender_id, receiver_id, action) ==
    LET row == RequestRow(sender_id, receiver_id)
        fr == CHOOSE r \in row : TRUE
        message ==
            IF action \notin {"accept", "reject"} THEN "Invalid action"
            ELSE IF row = {} THEN "Friend request not found"
            ELSE IF fr.receiver_id # current_user THEN "Unauthorized"
            ELSE IF action = "accept"
                 THEN IF Friend(fr.sender_id, fr.receiver_id) \in friends
                      THEN "Failed to create friendship"
                      ELSE "Friend request accepted"
            ELSE "Friend request rejected"
        code ==
            CASE message \in {"Friend request accepted", "Friend request rejected"} -> 200
              [] message = "Friend request not found" -> 404
              [] message = "Unauthorized" -> 403
              [] message = "Failed to create friendship" -> 500
              [] OTHER -> 400
    IN  /\ ops < MaxOps
        /\ friends' = IF message = "Friend request accepted"
                      THEN friends \cup {Friend(fr.sender_id, fr.receiver_id)}
                      ELSE friends
        /\ requests' = IF code = 200
                       THEN (requests \ row) \cup
                            {[fr EXCEPT !.status = IF action = "accept" THEN "accepted"
                                                   ELSE "rejected"]}
                       ELSE requests
        /\ ops' = IF code = 200 THEN ops + 1 ELSE ops
        /\ resp' = [kind |-> "action", code |-> code, message |-> message]
        /\ UNCHANGED <<moods, prefs>>

\* PUT /api/friend/request/<request_id> {action} by current_user
RequestAction(current_user, sender_id, receiver_id, action) ==
    LET row == RequestRow(sender_id, receiver_id)
        fr == CHOOSE r \in row : TRUE
        message ==
            IF action \notin {"accept", "reject"} THEN "Invalid action"
            ELSE IF row = {} THEN "Friend request not found"
            ELSE IF fr.receiver_id # current_user THEN "Unauthorized"
            ELSE IF fr.status # "pending" THEN "Friend request already processed"
            ELSE IF action = "accept"
                 THEN IF Friend(fr.sender_id, fr.receiver_id) \in friends
                      THEN "Failed to create friendship"
                      ELSE "Friend request accepted"
            ELSE "Friend request rejected"
        code ==
            CASE message \in {"Friend request accepted", "Friend request rejected"} -> 200
              [] message = "Friend request not found" -> 404
              [] message = "Unauthorized" -> 403
              [] message = "Failed to create friendship" -> 500
              [] OTHER -> 400
    IN  /\ ops < MaxOps
        /\ friends' = IF message = "Friend request accepted"
                      THEN friends \cup {Friend(fr.sender_id, fr.receiver_id)}
                      ELSE friends
        /\ requests' = IF code = 200
                       THEN (requests \ row) \cup
                            {[fr EXCEPT !.status = IF action = "accept" THEN "accepted"
                                                   ELSE "rejected"]}
                       ELSE requests
        /\ ops' = IF code = 200 THEN ops + 1 ELSE ops
        /\ resp' = [kind |-> "action", code |-> code, message |-> message]
        /\ UNCHANGED <<moods, prefs>>

\* DELETE /api/friend/request/<request_id> by current_user
\* the handler refusing to delete a request that is no longer pending
CancelRequest_PendingOnly(current_user, sender_id, receiver_id) ==
    LET row == RequestRow(sender_id, receiver_id)
        fr == CHOOSE r \in row : TRUE
        message ==
            IF row = {} THEN "Friend request not found"
            ELSE IF fr.sender_id # current_user THEN "Unauthorized"
            ELSE IF fr.status # "pending" THEN "Friend request already processed"
            ELSE "Friend request cancelled"
        code ==
            CASE message = "Friend request cancelled" -> 200
              [] message = "Friend request not found" -> 404
              [] message = "Friend request already processed" -> 400
              [] OTHER -> 403
    IN  /\ ops < MaxOps
        /\ requests' = IF code = 200 THEN requests \ row ELSE requests
        /\ ops' = IF code = 200 THEN ops + 1 ELSE ops
        /\ resp' = [kind |-> "cancel", code |-> code, message |-> message]
        /\ UNCHANGED <<friends, moods, prefs>>

CancelRequest(current_user, sender_id, receiver_id) ==
    LET row == RequestRow(sender_id, receiver_id)
        fr == CHOOSE r \in row : TRUE
        message ==
            IF row = {} THEN "Friend request not found"
            ELSE IF fr.sender_id # current_user THEN "Unauthorized"
            ELSE "Friend request cancelled"
        code ==
            CASE message = "Friend request cancelled" -> 200
              [] message = "Friend request not found" -> 404
              [] OTHER -> 403
    IN  /\ ops < MaxOps
        /\ requests' = IF code = 200 THEN requests \ row ELSE requests
        /\ ops' = IF code = 200 THEN ops + 1 ELSE ops
        /\ resp' = [kind |-> "cancel", code |-> code, message |-> message]
        /\ UNCHANGED <<friends, moods, prefs>>

\* DELETE /api/friend/unfriend/<friend_id> by current_user
Unfriend(current_user, friend_id) ==
    LET message ==
            IF friend_id \notin Users THEN "User not found"
            ELSE IF ~are_friends(friends, current_user, friend_id)
                 THEN "Not friends with this user"
            ELSE "Friend removed successfully"
        code ==
            CASE message = "Friend removed successfully" -> 200
              [] message = "User not found" -> 404
              [] OTHER -> 400
    IN  /\ ops < MaxOps
        /\ friends' = IF code = 200 THEN friends \ {Friend(current_user, friend_id)}
                      ELSE friends
        /\ ops' = IF code = 200 THEN ops + 1 ELSE ops
        /\ resp' = [kind |-> "unfriend", code |-> code, message |-> message]
        /\ UNCHANGED <<requests, moods, prefs>>

\* the requests a caller can name: a row is never from a user to itself
RequestKeys == {k \in Users \X Users : k[1] # k[2]}

\* limit arguments of the recommendation requests in Spec
GraphLimitArgs == {None, Some(<<"-", "1">>), Some(<<"0">>), Some(<<"1">>)}

(***************************************************************************)
(* Spec: the friend handlers and the recommendation request over a         *)
(* database that starts with no friendships and no requests                *)
(***************************************************************************)
Init ==
    /\ friends = {}
    /\ requests = {}
    /\ \E a \in [Users -> SeedProfiles] :
          /\ moods = MoodsOf(a)
          /\ prefs = PrefsTableOf(a)
    /\ resp = NoResponse
    /\ ops = 0

Next ==
    \/ \E u \in Users, arg \in GraphLimitArgs : Recommend(u, arg)
    \/ \E u \in Users, id \in IdInputs : SendRequest(u, id)
    \/ \E u \in Users, k \in RequestKeys, action \in {"accept", "reject", "block"} :
          RequestAction(u, k[1], k[2], action)
    \/ \E u \in Users, k \in RequestKeys : CancelRequest(u, k[1], k[2])
    \/ \E u \in Users, id \in Users \cup {GhostId} : Unfriend(u, id)

Spec == Init /\ [][Next]_vars

(***************************************************************************)
(* SpecGraph: the friend handlers alone, one request at a time, for longer *)
(* behaviours.  The handlers stop at ops = MaxOps, so the count of writes  *)
(* starts MaxGraphOps below it.                                            *)
(***************************************************************************)
InitGraph ==
    /\ friends = {}
    /\ requests = {}
    /\ moods = [u \in Users |-> <<>>]
    /\ prefs = {}
    /\ resp = NoResponse
    /\ ops = MaxOps - MaxGraphOps

NextGraph ==
    \/ \E u \in Users, id \in IdInputs : SendRequest(u, id)
    \/ \E u \in Users, k \in RequestKeys, action \in {"accept", "reject", "block"} :
          RequestAction(u, k[1], k[2], action)
    \/ \E u \in Users, k \in RequestKeys : CancelRequest(u, k[1], k[2])
    \/ \E u \in Users, id \in Users \cup {GhostId} : Unfriend(u, id)

SpecGraph == InitGraph /\ [][NextGraph]_vars

(***************************************************************************)
(* SpecFriend: the friend handlers and Friend(user_id1, user_id2).create() *)
(* as the setup scripts call it                                            *)
(***************************************************************************)
\* Friend(user_id1, user_id2).create(): the constructor raises ValueError for
\* equal ids; create returns None when the unique constraint rejects the row
CreateFriendship(user_id1, user_id2) ==
    LET result ==
            IF user_id1 = user_id2 THEN "ValueError"
            ELSE IF Friend(user_id1, user_id2) \in friends THEN "None"
            ELSE "row"
    IN  /\ ops < MaxOps
        /\ friends' = IF result = "row" THEN friends \cup {Friend(user_id1, user_id2)}
                      ELSE friends
        /\ ops' = IF result = "row" THEN ops + 1 ELSE ops
        /\ resp' = [kind |-> "friend_create", user_id1 |-> user_id1,
                    user_id2 |-> user_id2, result |-> result]
        /\ UNCHANGED <<requests, moods, prefs>>

NextFriend ==
    \/ \E a, b \in Users : CreateFriendship(a, b)
    \/ \E u \in Users, id \in IdInputs : SendRequest(u, id)
    \/ \E u \in Users, k \in RequestKeys, action \in {"accept", "reject", "block"} :
          RequestAction(u, k[1], k[2], action)
    \/ \E u \in Users, k \in RequestKeys : CancelRequest(u, k[1], k[2])
    \/ \E u \in Users, id \in Users \cup {GhostId} : Unfriend(u, id)

SpecFriend == InitGraph /\ [][NextFriend]_vars

(***************************************************************************)
(* SpecRank: recommendation requests over richer mood and preference data  *)
(***************************************************************************)
RankProfiles ==
    {Profile(<<>>, NoPrefs),
     Profile(<<MoodMealMood(70, "")>>, NoPrefs),
     Profile(<<MoodMealMood(30, "")>>, PrefLists(<<"Italian", "Mexican">>, <<>>, <<>>)),
     Profile(<<>>, PrefLists(<<"Mexican", "Thai">>, <<"Italian">>, <<>>)),
     Profile(<<MoodMealMood(70, ""), MoodMealMood(30, "")>>, PrefLists(<<>>, <<>>, <<>>)),
     Profile(<<>>, PrefLists(<<>>, <<>>, <<>>)),
     Profile(<<MoodMealMood(70, ""), MoodMealMood(70, ""), MoodMealMood(30, "")>>,
             PrefLists(<<"Italian", "Mexican", "Thai", "Japanese", "italian", " Italian ">>,
                       <<"Italian">>, <<>>))}

InitRank ==
    /\ friends = {}
    /\ requests = {}
    /\ \E a \in [Users -> RankProfiles] :
          /\ moods = MoodsOf(a)
          /\ prefs = PrefsTableOf(a)
    /\ resp = NoResponse
    /\ ops = 0

\* one request on each database: a request leaves the tables as they are, so a
\* second one would see the same data
NextRank ==
    /\ resp = NoResponse
    /\ \E u \in Users, arg \in LimitArgs : Recommend(u, arg)

SpecRank == InitRank /\ [][NextRank]_vars

(***************************************************************************)
(* SpecScore: calculate_similarity_score on the data of users 1 and 2      *)
(***************************************************************************)
SeqsUpTo(S, n) == UNION {[1..k -> S] : k \in 0..n}

\* entries as POST /mood stores them, and an entry that PUT /mood/<id> gave a
\* score out of range and the category ''
ScoreMoodEntries ==
    {MoodMealMood(30, ""), MoodMealMood(75, ""),
     [mood_score |-> 250, mood_category |-> ""]}

ScorePrefs ==
    {NoPrefs,
     PrefLists(<<>>, <<>>, <<>>),
     PrefLists(<<"Italian", "Mexican">>, <<>>, <<"Thai">>),
     PrefLists(<<"Mexican", "Thai">>, <<"Italian">>, <<"Thai">>),
     PrefLists(<<"Mexican", "Italian", "Mexican">>, <<"Italian">>, <<>>),
     PrefLists(<<"Italian", "Japanese">>, <<>>, <<>>)}

ScoreProfiles ==
    {Profile(ms, p) : ms \in SeqsUpTo(ScoreMoodEntries, Min(MaxScoreMoods, MaxMoods)), p \in ScorePrefs}

ScoreUsers == {1, 2}

\* calculate_similarity_score(user's data, other's data) as the loop of
\* get_recommendations calls it
Score(user_id, other_user_id) ==
    LET sim == calculate_similarity_score(RecentMoods(moods, user_id),
                                          RecentMoods(moods, other_user_id),
                                          PrefsOf(prefs, user_id),
                                          PrefsOf(prefs, other_user_id))
    IN  /\ resp' = [kind |-> "score", user |-> user_id, other |-> other_user_id,
                    final_score |-> sim.final_score, scores |-> sim.scores]
        /\ UNCHANGED <<friends, requests, moods, prefs, ops>>

InitScore ==
    /\ friends = {}
    /\ requests = {}
    /\ \E p1, p2 \in ScoreProfiles :
          LET a == [u \in Users |-> IF u = 1 THEN p1
                                    ELSE IF u = 2 THEN p2
                                    ELSE Profile(<<>>, NoPrefs)]
          IN  /\ moods = MoodsOf(a)
              /\ prefs = PrefsTableOf(a)
    /\ resp = NoResponse
    /\ ops = 0

NextScore ==
    /\ resp = NoResponse
    /\ \E u, o \in ScoreUsers : Score(u, o)

SpecScore == InitScore /\ [][NextScore]_vars

(***************************************************************************)
(* SpecOverlap: calculate_list_overlap on the cuisines lists of users 1    *)
(* and 2, which POST /preferences stores as they are sent                  *)
(***************************************************************************)
OverlapLists == SeqsUpTo(Items, MaxListLen)

InitOverlap ==
    /\ friends = {}
    /\ requests = {}
    /\ moods = [u \in Users |-> <<>>]
    /\ \E list1, list2 \in OverlapLists :
          prefs = {MoodMealPreferences(1, list1, <<>>, <<>>),
                   MoodMealPreferences(2, list2, <<>>, <<>>)}
    /\ resp = NoResponse
    /\ ops = 0

NextOverlap ==
    /\ resp = NoResponse
    /\ \E u, o \in ScoreUsers : Score(u, o)

SpecOverlap == InitOverlap /\ [][NextOverlap]_vars

(***************************************************************************)
(* Mood handlers (src/api/moodmeal_api.py).  A JSON value is a record with *)
(* its type; a key that the body does not have is None.  The row that a    *)
(* mood id names is given by its owner and its place in the owner's        *)
(* history.                                                                *)
(***************************************************************************)
JsonInt(n) == [type |-> "int", value |-> n]
JsonStr(x) == [type |-> "str", value |-> x]

\* POST /api/moodmeal/mood {mood_score, mood_category} by current_user
CreateMood(current_user, mood_score, mood_category) ==
    LET message ==
            IF mood_score = None THEN "mood_score is required"
            ELSE IF \/ mood_score[1].type # "int"
                    \/ mood_score[1].value < 0
                    \/ mood_score[1].value > 100
                 THEN "mood_score must be an integer between 0 and 100"
                 ELSE "ok"
        new_mood == MoodMealMood(mood_score[1].value,
                                 IF mood_category = None THEN "" ELSE mood_category[1].value)
    IN  IF message # "ok"
        THEN /\ resp' = [kind |-> "mood_post", code |-> 400, message |-> message]
             /\ UNCHANGED <<friends, requests, moods, prefs, ops>>
        ELSE /\ ops < MaxMoodOps
             /\ Len(moods[current_user]) < MaxMoods
             /\ moods' = [moods EXCEPT ![current_user] = <<new_mood>> \o @]
             /\ ops' = ops + 1
             /\ resp' = [kind |-> "mood_post", code |-> 201, message |-> "ok"]
             /\ UNCHANGED <<friends, requests, prefs>>

\* the query filter_by(id=mood_id, _user_id=current_user.id).first() finds a row
MoodFound(current_user, owner, place) ==
    owner = current_user /\ place \in 1..Len(moods[owner])

\* MoodMealMood.update(data): the mood_score setter recomputes the category,
\* then a mood_category of the body replaces it (None and '' are both falsy)
update(mood, mood_score, mood_category) ==
    LET scored == IF mood_score = None THEN mood
                  ELSE [mood_score |-> mood_score[1].value,
                        mood_category |-> get_category_from_score(mood_score[1].value)]
    IN  IF mood_category = None THEN scored
        ELSE [scored EXCEPT !.mood_category = mood_category[1].value]

\* PUT /api/moodmeal/mood/<mood_id> {mood_score, mood_category} by current_user
UpdateMood(current_user, owner, place, mood_score, mood_category) ==
    IF ~MoodFound(current_user, owner, place)
    THEN /\ resp' = [kind |-> "mood_put", code |-> 404, message |-> "Mood entry not found"]
         /\ UNCHANGED <<friends, requests, moods, prefs, ops>>
    ELSE /\ ops < MaxMoodOps
         /\ moods' = [moods EXCEPT ![owner][place] = update(@, mood_score, mood_category)]
         /\ ops' = ops + 1
         /\ resp' = [kind |-> "mood_put", code |-> 200, message |-> "ok"]
         /\ UNCHANGED <<friends, requests, prefs>>

\* DELETE /api/moodmeal/mood/<mood_id> by current_user
DeleteMood(current_user, owner, place) ==
    IF ~MoodFound(current_user, owner, place)
    THEN /\ resp' = [kind |-> "mood_delete", code |-> 404, message |-> "Mood entry not found"]
         /\ UNCHANGED <<friends, requests, moods, prefs, ops>>
    ELSE /\ ops < MaxMoodOps
         /\ moods' = [moods EXCEPT ![owner] =
                         [i \in 1..(Len(@) - 1) |-> IF i < place THEN @[i] ELSE @[i + 1]]]
         /\ ops' = ops + 1
         /\ resp' = [kind |-> "mood_delete", code |-> 200,
                     message |-> "Mood entry deleted successfully"]
         /\ UNCHANGED <<friends, requests, prefs>>

(***************************************************************************)
(* SpecMood: the mood handlers over a moods table that starts empty        *)
(***************************************************************************)
\* mood_score values of a POST body: none, a string, in range, out of range
PostScores == {None, Some(JsonStr("high")), Some(JsonInt(30)), Some(JsonInt(250))}
\* mood_score values of a PUT body
PutScores == {None, Some(JsonInt(75)), Some(JsonInt(250))}
\* mood_category values of a body: none, '', a category name
BodyCategories == {None, Some(JsonStr("")), Some(JsonStr("Happy/Neutral"))}

\* the rows a mood id can name, and one id that names no row
MoodRefs == Users \X (1..(MaxMoods + 1))

InitMood ==
    /\ friends = {}
    /\ requests = {}
    /\ moods = [u \in Users |-> <<>>]
    /\ prefs = {}
    /\ resp = NoResponse
    /\ ops = 0

NextMood ==
    \/ \E u \in Users, sc \in PostScores, cat \in BodyCategories : CreateMood(u, sc, cat)
    \/ \E u \in Users, ref \in MoodRefs, sc \in PutScores, cat \in BodyCategories :
          UpdateMood(u, ref[1], ref[2], sc, cat)
    \/ \E u \in Users, ref \in MoodRefs : DeleteMood(u, ref[1], ref[2])

SpecMood == InitMood /\ [][NextMood]_vars

(***************************************************************************)
(* Send-request calls running at the same time (FriendRequestAPI.post).    *)
(* Each call is one request thread with its own session; a query sees the  *)
(* rows committed so far and create() commits its insert.  resp[c] is the  *)
(* record of call c: where the call is, and its answer once it returned.   *)
(***************************************************************************)
SendCalls == 1..MaxSendCalls

SendCall(pc, current_user, receiver_id, code, message) ==
    [kind |-> "send", pc |-> pc, current_user |-> current_user,
     receiver_id |-> receiver_id, code |-> code, message |-> message]

\* the call has read its body and looked the receiver up
SendBegin(c, current_user, receiver_id) ==
    /\ resp[c] = NoResponse
    /\ resp' = [resp EXCEPT ![c] =
                  IF receiver_id = 0
                  THEN SendCall("done", current_user, receiver_id, 400,
                                "Receiver ID is required")
                  ELSE IF receiver_id \notin Users
                  THEN SendCall("done", current_user, receiver_id, 404, "User not found")
                  ELSE SendCall("are_friends", current_user, receiver_id, 0, "")]
    /\ UNCHANGED <<friends, requests, moods, prefs, ops>>

\* if Friend.are_friends(current_user.id, receiver_id)
SendAreFriends(c) ==
    /\ resp[c].kind = "send" /\ resp[c].pc = "are_friends"
    /\ resp' = [resp EXCEPT ![c] =
                  IF are_friends(friends, resp[c].current_user, resp[c].receiver_id)
                  THEN [@ EXCEPT !.pc = "done", !.code = 400,
                                 !.message = "Already friends with this user"]
                  ELSE [@ EXCEPT !.pc = "has_pending_request"]]
    /\ UNCHANGED <<friends, requests, moods, prefs, ops>>

\* if FriendRequest.has_pending_request(current_user.id, receiver_id)
SendHasPending(c) ==
    /\ resp[c].kind = "send" /\ resp[c].pc = "has_pending_request"
    /\ resp' = [resp EXCEPT ![c] =
                  IF has_pending_request(requests, resp[c].current_user, resp[c].receiver_id)
                  THEN [@ EXCEPT !.pc = "done", !.code = 400,
                                 !.message = "Friend request already pending"]
                  ELSE [@ EXCEPT !.pc = "create"]]
    /\ UNCHANGED <<friends, requests, moods, prefs, ops>>

\* FriendRequest(current_user.id, receiver_id).create() and the answer
SendCreate(c) ==
    /\ resp[c].kind = "send" /\ resp[c].pc = "create"
    /\ LET current_user == resp[c].current_user
           receiver_id == resp[c].receiver_id
           message ==
               IF current_user = receiver_id
               THEN "Users cannot send friend requests to themselves"
               ELSE IF \E r \in requests :
                           r.sender_id = current_user /\ r.receiver_id = receiver_id
                    THEN "Failed to create friend request"
               ELSE "ok"
           code == CASE message = "ok" -> 201
                     [] message = "Failed to create friend request" -> 500
                     [] OTHER -> 400
       IN  /\ requests' = IF code = 201
                          THEN requests \cup {FriendRequest(current_user, receiver_id)}
                          ELSE requests
           /\ ops' = IF code = 201 THEN ops + 1 ELSE ops
           /\ resp' = [resp EXCEPT ![c] = [@ EXCEPT !.pc = "done", !.code = code,
                                                    !.message = message]]
    /\ UNCHANGED <<friends, moods, prefs>>

\* tables the calls start from: empty, a friendship made by an accepted
\* request, a rejected request
SendStarts ==
    {[friends |-> {}, requests |-> {}],
     [friends |-> {Friend(1, 2)},
      requests |-> {[FriendRequest(1, 2) EXCEPT !.status = "accepted"]}],
     [friends |-> {},
      requests |-> {[FriendRequest(1, 2) EXCEPT !.status = "rejected"]}]}

InitSend ==
    /\ \E g \in SendStarts : friends = g.friends /\ requests = g.requests
    /\ moods = [u \in Users |-> <<>>]
    /\ prefs = {}
    /\ resp = [c \in SendCalls |-> NoResponse]
    /\ ops = 0

NextSend ==
    \/ \E c \in SendCalls, u \in Users, id \in IdInputs : SendBegin(c, u, id)
    \/ \E c \in SendCalls : SendAreFriends(c)
    \/ \E c \in SendCalls : SendHasPending(c)
    \/ \E c \in SendCalls : SendCreate(c)

SpecSend == InitSend /\ [][NextSend]_vars

(***************************************************************************)
(* A recommendation call running at the same time as an accept / reject    *)
(* call (FriendRecommendationsAPI.get, FriendRequestActionAPI.put).  Every *)
(* query of a call sees the rows committed so far; create() and update()   *)
(* each commit.  resp["recommend"] and resp["action"] are the records of   *)
(* the two calls.                                                          *)
(***************************************************************************)
AcceptCalls == {"recommend", "action"}

\* GET /api/friend/recommendations by current_user, up to the reads of the
\* requester's own moods and preferences
RecoBegin(current_user) ==
    /\ resp["recommend"] = NoResponse
    /\ resp' = [resp EXCEPT !["recommend"] =
                  [kind |-> "recs", pc |-> "friend_ids", user |-> current_user,
                   friend_ids |-> {}, sent_requests |-> {}, excluded_ids |-> {},
                   result |-> <<>>]]
    /\ UNCHANGED <<friends, requests, moods, prefs, ops>>

\* friend_ids = Friend.get_friends_for_user(user_id)
RecoReadFriends ==
    /\ resp["recommend"].kind = "recs" /\ resp["recommend"].pc = "friend_ids"
    /\ resp' = [resp EXCEPT !["recommend"] =
                  [@ EXCEPT !.pc = "sent_requests",
                            !.friend_ids = get_friends_for_user(friends,
                                                                  resp["recommend"].user)]]
    /\ UNCHANGED <<friends, requests, moods, prefs, ops>>

\* sent_requests = FriendRequest.get_sent_requests_for_user(user_id)
RecoReadSent ==
    /\ resp["recommend"].kind = "recs" /\ resp["recommend"].pc = "sent_requests"
    /\ resp' = [resp EXCEPT !["recommend"] =
                  [@ EXCEPT !.pc = "received_requests",
                            !.sent_requests = get_sent_requests_for_user(requests,
                                                          resp["recommend"].user)]]
    /\ UNCHANGED <<friends, requests, moods, prefs, ops>>

\* received_requests = FriendRequest.get_pending_requests_for_user(user_id),
\* then the rest of get_recommendations on what the call has read
RecoReadReceivedAndReturn ==
    /\ resp["recommend"].kind = "recs" /\ resp["recommend"].pc = "received_requests"
    /\ LET call == resp["recommend"]
           F == {Friend(call.user, v) : v \in call.friend_ids}
           R == call.sent_requests \cup get_pending_requests_for_user(requests, call.user)
       IN  \E all_user_ids \in Perms(CandidateIds(F, R, moods, prefs, call.user)) :
             \E out \in get_recommendations(F, R, moods, prefs, call.user,
                                            DefaultLimit, all_user_ids) :
               resp' = [resp EXCEPT !["recommend"] =
                          [@ EXCEPT !.pc = "done",
                                    !.excluded_ids = ExcludedIds(F, R, call.user),
                                    !.result = out.result]]
    /\ UNCHANGED <<friends, requests, moods, prefs, ops>>

\* PUT /api/friend/request/<request_id> {action} by current_user, up to the
\* test that the request is still pending
ActionBegin(current_user, sender_id, receiver_id, action) ==
    /\ resp["action"] = NoResponse
    /\ LET row == RequestRow(sender_id, receiver_id)
           fr == CHOOSE r \in row : TRUE
           message ==
               IF action \notin {"accept", "reject"} THEN "Invalid action"
               ELSE IF row = {} THEN "Friend request not found"
               ELSE IF fr.receiver_id # current_user THEN "Unauthorized"
               ELSE IF fr.status # "pending" THEN "Friend request already processed"
               ELSE ""
           code == CASE message = "" -> 0
                     [] message = "Friend request not found" -> 404
                     [] message = "Unauthorized" -> 403
                     [] OTHER -> 400
       IN  resp' = [resp EXCEPT !["action"] =
                      [kind |-> "action",
                       pc |-> IF code # 0 THEN "done"
                              ELSE IF action = "accept" THEN "create" ELSE "update",
                       sender_id |-> sender_id, receiver_id |-> receiver_id,
                       action |-> action, code |-> code, message |-> message]]
    /\ UNCHANGED <<friends, requests, moods, prefs, ops>>

\* Friend(friend_request.sender_id, friend_request.receiver_id).create()
ActionCreateFriendship ==
    /\ resp["action"].kind = "action" /\ resp["action"].pc = "create"
    /\ LET call == resp["action"]
           friendship == Friend(call.sender_id, call.receiver_id)
       IN  IF friendship \in friends
           THEN /\ resp' = [resp EXCEPT !["action"] =
                              [@ EXCEPT !.pc = "done", !.code = 500,
                                        !.message = "Failed to create friendship"]]
                /\ UNCHANGED <<friends, ops>>
           ELSE /\ friends' = friends \cup {friendship}
                /\ ops' = ops + 1
                /\ resp' = [resp EXCEPT !["action"] = [@ EXCEPT !.pc = "update"]]
    /\ UNCHANGED <<requests, moods, prefs>>

\* friend_request.status = 'accepted' / 'rejected'; friend_request.update()
ActionUpdate ==
    /\ resp["action"].kind = "action" /\ resp["action"].pc = "update"
    /\ LET call == resp["action"]
           status == IF call.action = "accept" THEN "accepted" ELSE "rejected"
       IN  /\ requests' =
                {IF r.sender_id = call.sender_id /\ r.receiver_id = call.receiver_id
                 THEN [r EXCEPT !.status = status] ELSE r : r \in requests}
           /\ resp' = [resp EXCEPT !["action"] =
                         [@ EXCEPT !.pc = "done", !.code = 200,
                                   !.message = IF call.action = "accept"
                                               THEN "Friend request accepted"
                                               ELSE "Friend request rejected"]]
    /\ ops' = ops + 1
    /\ UNCHANGED <<friends, moods, prefs>>

\* one pending request, no friendship, and seed data for every user
InitAccept ==
    /\ friends = {}
    /\ \E k \in RequestKeys : requests = {FriendRequest(k[1], k[2])}
    /\ \E a \in [Users -> SeedProfiles] :
          /\ moods = MoodsOf(a)
          /\ prefs = PrefsTableOf(a)
    /\ resp = [c \in AcceptCalls |-> NoResponse]
    /\ ops = 0

NextAccept ==
    \/ \E u \in Users : RecoBegin(u)
    \/ RecoReadFriends
    \/ RecoReadSent
    \/ RecoReadReceivedAndReturn
    \/ \E u \in Users, k \in RequestKeys, action \in {"accept", "reject", "block"} :
          ActionBegin(u, k[1], k[2], action)
    \/ ActionCreateFriendship
    \/ ActionUpdate

SpecAccept == InitAccept /\ [][NextAccept]_vars

(***************************************************************************)
(* Properties                                                              *)
(***************************************************************************)
IsRecs == resp.kind = "recs"

\* the users of the returned list
ResultUsers == {resp.result[i].user : i \in DOMAIN resp.result}

\* the users with a friends row that names u
FriendsInTable(u) ==
    {v \in Users : \E f \in friends :
        \/ f.user_id1 = u /\ f.user_id2 = v
        \/ f.user_id2 = u /\ f.user_id1 = v}

\* the users with a pending request to or from u
PendingCounterparts(u) ==
    {v \in Users : \E r \in requests :
        /\ r.status = "pending"
        /\ \/ r.sender_id = u /\ r.receiver_id = v
           \/ r.sender_id = v /\ r.receiver_id = u}

\* the users with a mood entry or a preferences row
UsersWithData == {u \in Users : moods[u] # <<>> \/ \E p \in prefs : p.user_id = u}

HasNoData(u) == moods[u] = <<>> /\ ~\E p \in prefs : p.user_id = u

\* C1: a user with a friends row to the requester is in no returned list,
\* whatever the limit and on both paths
C1_FriendsNeverRecommended ==
    IsRecs => ResultUsers \cap FriendsInTable(resp.user) = {}

\* a scored request by a user whose friend has moods like the requester's own
C1_Witness ==
    /\ IsRecs /\ resp.path = "scored" /\ resp.result # <<>>
    /\ \E v \in FriendsInTable(resp.user) : moods[v] # <<>> /\ moods[resp.user] # <<>>

\* C2: a user with a pending request to or from the requester is in no
\* returned list
C2_PendingNeverRecommended ==
    IsRecs => ResultUsers \cap PendingCounterparts(resp.user) = {}

\* a scored request by a user who received a pending request from a user with moods
C2_Witness ==
    /\ IsRecs /\ resp.path = "scored" /\ resp.result # <<>>
    /\ moods[resp.user] # <<>>
    /\ \E r \in requests :
          /\ r.status = "pending" /\ r.receiver_id = resp.user
          /\ moods[r.sender_id] # <<>>

\* C3: excluded_ids is the requester, the friends and the counterparts of the
\* pending requests, and nobody else; all_user_ids lists, once each, the users
\* with data that are not excluded
C3_ExcludedAndPool ==
    IsRecs =>
        /\ resp.excluded_ids =
              {resp.user} \cup FriendsInTable(resp.user) \cup PendingCounterparts(resp.user)
        /\ Range(resp.all_user_ids) = UsersWithData \ resp.excluded_ids
        /\ Len(resp.all_user_ids) = Cardinality(Range(resp.all_user_ids))

\* the requester sent a request that was rejected; its receiver is a candidate
C3_Witness ==
    /\ IsRecs
    /\ \E r \in requests :
          /\ r.sender_id = resp.user /\ r.status = "rejected"
          /\ r.receiver_id \in Range(resp.all_user_ids)

PossibleResults(F, R, M, P, user_id, limit) ==
    UNION {{o.result : o \in get_recommendations(F, R, M, P, user_id, limit, ids)} :
              ids \in Perms(CandidateIds(F, R, M, P, user_id))}

\* C5: a request whose limit is absent, not a number or not positive succeeds
\* and returns what a request with limit 10 returns
C5_BadLimitMeansDefault ==
    (IsRecs /\ (resp.arg = None \/ ~IsIntString(resp.arg[1]) \/ resp.limit <= 0)) =>
        /\ resp.code = 200
        /\ resp.result \in
              PossibleResults(friends, requests, moods, prefs, resp.user, DefaultLimit)

\* C6: on the scored path every returned entry has a score above 0, and the
\* ranked list holds exactly the candidates whose score is above 0
C6_OnlyPositiveScores ==
    (IsRecs /\ resp.path = "scored") =>
        /\ \A i \in DOMAIN resp.result : resp.result[i].score > 0
        /\ \A v \in Range(resp.all_user_ids) :
              (calculate_similarity_score(
                   RecentMoods(moods, resp.user), RecentMoods(moods, v),
                   PrefsOf(prefs, resp.user), PrefsOf(prefs, v)).final_score > 0)
              <=> (\E i \in DOMAIN resp.recommendations : resp.recommendations[i].user = v)

\* a scored request with a candidate of score 0 and a returned candidate
C6_Witness ==
    /\ IsRecs /\ resp.path = "scored" /\ resp.result # <<>>
    /\ \E v \in Range(resp.all_user_ids) :
          calculate_similarity_score(
              RecentMoods(moods, resp.user), RecentMoods(moods, v),
              PrefsOf(prefs, resp.user), PrefsOf(prefs, v)).final_score = 0

\* the place of user v in all_user_ids
EnumIndex(v) == CHOOSE i \in DOMAIN resp.all_user_ids : resp.all_user_ids[i] = v

\* C7: the returned list is in descending score order; on the scored path
\* entries of equal score are in the order of all_user_ids, and the returned
\* list is a prefix of the ranked list, so nothing dropped outranks it
C7_SortedStablePrefix ==
    IsRecs =>
        /\ \A i, j \in DOMAIN resp.result :
              i < j => resp.result[i].score >= resp.result[j].score
        /\ resp.path = "scored" =>
              /\ \A i, j \in DOMAIN resp.recommendations :
                    i < j =>
                      /\ resp.recommendations[i].score >= resp.recommendations[j].score
                      /\ resp.recommendations[i].score = resp.recommendations[j].score
                            => EnumIndex(resp.recommendations[i].user)
                                  < EnumIndex(resp.recommendations[j].user)
              /\ Len(resp.result) <= Len(resp.recommendations)
              /\ \A i \in DOMAIN resp.result : resp.result[i] = resp.recommendations[i]

\* two candidates of equal score, enumerated with the larger id first
C7_Witness ==
    /\ IsRecs /\ resp.path = "scored" /\ Len(resp.result) = 2
    /\ resp.result[1].score = resp.result[2].score
    /\ resp.result[1].user > resp.result[2].user

\* the shape of a cold-start entry and where its user comes from
ColdShape ==
    \A i \in DOMAIN resp.result :
        /\ resp.result[i].score = 0
        /\ resp.result[i].avg_mood_score = None
        /\ resp.result[i].shared_mood_categories = {}
        /\ resp.result[i].shared_music = {}
        /\ resp.result[i].shared_activities = {}
        /\ resp.result[i].shared_cuisines = {}
        /\ resp.result[i].user \in
              UsersWithData \ ({resp.user} \cup FriendsInTable(resp.user)
                                  \cup PendingCounterparts(resp.user))

SwapMissingAndEmpty(P, u) ==
    IF PrefsOf(P, u) = {} THEN P \cup {MoodMealPreferences(u, <<>>, <<>>, <<>>)}
    ELSE IF PrefsOf(P, u) = {MoodMealPreferences(u, <<>>, <<>>, <<>>)} THEN P \ PrefsOf(P, u)
    ELSE P

\* C9: the returned list is one the request can also return when a missing
\* preferences row of any user is replaced by an all-empty row, or the reverse
C9_MissingPrefsLikeEmpty ==
    IsRecs =>
        \A u \in Users :
            resp.result \in PossibleResults(friends, requests, moods,
                                            SwapMissingAndEmpty(prefs, u),
                                            resp.user, resp.limit)

\* C10: the final score lies in [0,1] and so does each of the five components
C10_ScoresInUnitInterval ==
    resp.kind = "score" =>
        /\ 0 <= resp.final_score /\ resp.final_score <= 100 * UNIT
        /\ \A k \in {"mood_score", "mood_category", "music", "activities", "cuisines"} :
              0 <= resp.scores[k] /\ resp.scores[k] <= UNIT

\* the average mood scores are more than 100 apart, and preferences overlap
C10_Witness ==
    /\ resp.kind = "score"
    /\ moods[resp.user] # <<>> /\ moods[resp.other] # <<>>
    /\ Abs(SumScores(moods[resp.user]) * Len(moods[resp.other])
            - SumScores(moods[resp.other]) * Len(moods[resp.user]))
          > 100 * Len(moods[resp.user]) * Len(moods[resp.other])
    /\ resp.scores.mood_score = 0
    /\ resp.scores.cuisines > 0

(***************************************************************************)
(* Properties of calculate_similarity_score                                *)
(***************************************************************************)
IsScore == resp.kind = "score"

ScoreKeys == {"mood_score", "mood_category", "music", "activities", "cuisines"}
PrefKeys == {"music", "activities", "cuisines"}

\* the three lists of a user's preferences row; None when there is no row
ListsOf(u) ==
    IF \E p \in prefs : p.user_id = u
    THEN LET row == CHOOSE p \in prefs : p.user_id = u
         IN  Some([k \in PrefKeys |-> row[k]])
    ELSE None

\* the categories that occur in a user's history; '' is no category
CategoriesOf(u) == {c \in CategoryNames : \E i \in 1..Len(moods[u]) : moods[u][i].mood_category = c}

IdenticalData(u, o) == moods[u] = moods[o] /\ ListsOf(u) = ListsOf(o)

AllSaturated ==
    /\ resp.final_score = 100 * UNIT
    /\ \A k \in ScoreKeys : resp.scores[k] = UNIT

\* the calls the loop of get_recommendations makes: the requester is not on the
\* cold-start path and the candidate is another user who has some data
CalledByLoop ==
    /\ IsScore
    /\ resp.user # resp.other
    /\ ~IsColdStart(moods, prefs, resp.user)
    /\ moods[resp.other] # <<>> \/ ListsOf(resp.other) # None

\* C11 as stated: identical mood histories and identical preference lists give
\* a final score of 1.0 and five components of 1.0
C11_IdenticalMeansOne ==
    (CalledByLoop /\ IdenticalData(resp.user, resp.other)) => AllSaturated

\* C11 amended: identical histories that are not empty and hold a category, and
\* identical preference rows whose music, activities and cuisines lists are not
\* empty, give a final score of 1.0 and five components of 1.0
C11_IdenticalNonEmptyMeansOne ==
    (/\ IsScore
     /\ resp.user # resp.other
     /\ IdenticalData(resp.user, resp.other)
     /\ moods[resp.user] # <<>>
     /\ CategoriesOf(resp.user) # {}
     /\ ListsOf(resp.user) # None
     /\ \A k \in PrefKeys : ListsOf(resp.user)[1][k] # <<>>)
        => AllSaturated

\* two users with the same two-entry history and the same three non-empty lists
C11_Witness ==
    /\ CalledByLoop
    /\ IdenticalData(resp.user, resp.other)
    /\ Len(moods[resp.user]) = 2
    /\ CategoriesOf(resp.user) # {}
    /\ ListsOf(resp.user) # None
    /\ \A k \in PrefKeys : ListsOf(resp.user)[1][k] # <<>>
    /\ AllSaturated

\* C12: the final score is 0.25*mood_score + 0.15*mood_category + 0.20*music
\* + 0.20*activities + 0.20*cuisines, and the five weights sum to 1
C12_WeightedSum ==
    /\ W_MOOD_SCORE + W_MOOD_CATEGORY + W_MUSIC + W_ACTIVITIES + W_CUISINES = 100
    /\ IsScore =>
          resp.final_score = 25 * resp.scores.mood_score + 15 * resp.scores.mood_category
                               + 20 * resp.scores.music + 20 * resp.scores.activities
                               + 20 * resp.scores.cuisines

\* the example: both average 75 in Happy/Neutral, both like Italian and Japanese
\* food and list no music and no activities: 1, 1, 0, 0, 1 and 0.60
C12_Witness ==
    /\ IsScore
    /\ resp.user # resp.other
    /\ \A u \in {resp.user, resp.other} :
          /\ moods[u] # <<>>
          /\ SumScores(moods[u]) = 75 * Len(moods[u])
          /\ CategoriesOf(u) = {"Happy/Neutral"}
          /\ ListsOf(u) = Some([music |-> <<>>, activities |-> <<>>,
                                cuisines |-> <<"Italian", "Japanese">>])
    /\ resp.scores = [mood_score |-> UNIT, mood_category |-> UNIT, music |-> 0,
                      activities |-> 0, cuisines |-> UNIT]
    /\ resp.final_score = 60 * UNIT

\* the list k of both users, when both have a row and neither list is empty
BothLists(k) ==
    /\ ListsOf(resp.user) # None /\ ListsOf(resp.other) # None
    /\ ListsOf(resp.user)[1][k] # <<>> /\ ListsOf(resp.other)[1][k] # <<>>

\* C13: each preference overlap is |intersection| / |union| of the two lists as
\* sets, and 0 when a list is empty or a user has no preferences row
C13_PreferenceOverlapIsJaccard ==
    IsScore =>
        \A k \in PrefKeys :
            IF BothLists(k)
            THEN LET a == Range(ListsOf(resp.user)[1][k])
                     b == Range(ListsOf(resp.other)[1][k])
                 IN  resp.scores[k] * Cardinality(a \cup b) = UNIT * Cardinality(a \cap b)
            ELSE resp.scores[k] = 0

\* the example: [Italian, Mexican] against [Mexican, Thai] gives 1/3
C13_Witness ==
    /\ IsScore
    /\ BothLists("cuisines")
    /\ ListsOf(resp.user)[1].cuisines = <<"Italian", "Mexican">>
    /\ ListsOf(resp.other)[1].cuisines = <<"Mexican", "Thai">>
    /\ 3 * resp.scores.cuisines = UNIT
    /\ resp.scores.music = 0

\* item.lower().strip() on the strings of Items
LowerStrip ==
    [x \in Items |->
        CASE x \in {"Italian", "italian", " Italian "} -> "italian"
          [] x = "Mexican" -> "mexican"
          [] x = "Thai" -> "thai"
          [] x = "Japanese" -> "japanese"]

Normalized(list) == {LowerStrip[list[i]] : i \in 1..Len(list)}

\* C14: the overlap of two non-empty lists is the Jaccard similarity of their
\* items lower-cased, trimmed and taken once, so lists that differ only in case,
\* whitespace or repetition overlap with 1.0
C14_OverlapIgnoresCaseAndSpace ==
    (IsScore /\ resp.user # resp.other /\ BothLists("cuisines")) =>
        LET a == Normalized(ListsOf(resp.user)[1].cuisines)
            b == Normalized(ListsOf(resp.other)[1].cuisines)
        IN  resp.scores.cuisines * Cardinality(a \cup b) = UNIT * Cardinality(a \cap b)

\* C15: calculate_list_overlap(l1, l2) = calculate_list_overlap(l2, l1)
C15_OverlapSymmetric ==
    (IsScore /\ ListsOf(resp.user) # None /\ ListsOf(resp.other) # None) =>
        \A k \in PrefKeys :
            resp.scores[k] = calculate_list_overlap(ListsOf(resp.other)[1][k],
                                                    ListsOf(resp.user)[1][k])

\* a one-item list against a two-item list that holds the item: 1/2 both ways
C15_Witness ==
    /\ IsScore
    /\ BothLists("cuisines")
    /\ Cardinality(Range(ListsOf(resp.user)[1].cuisines)) = 1
    /\ Cardinality(Range(ListsOf(resp.other)[1].cuisines)) = 2
    /\ 2 * resp.scores.cuisines = UNIT
    /\ calculate_list_overlap(ListsOf(resp.other)[1].cuisines,
                              ListsOf(resp.user)[1].cuisines) = resp.scores.cuisines

\* C16: mood_score is max(0, 1 - |avg(requester) - avg(candidate)| / 100) over
\* the entries loaded for each side, and 0 when a side has no entry
C16_MoodScoreSimilarity ==
    IsScore =>
        LET user_moods == RecentMoods(moods, resp.user)
            other_moods == RecentMoods(moods, resp.other)
            n1 == Len(user_moods)
            n2 == Len(other_moods)
            \* |avg1 - avg2| = diff / (n1 * n2)
            diff == Abs(SumScores(user_moods) * n2 - SumScores(other_moods) * n1)
        IN  IF n1 = 0 \/ n2 = 0 THEN resp.scores.mood_score = 0
            ELSE resp.scores.mood_score * (100 * n1 * n2)
                    = Max(0, 100 * n1 * n2 - diff) * UNIT

\* histories of two entries and of one entry whose averages differ by less than
\* 100: the similarity lies strictly between 0 and 1
C16_Witness ==
    /\ CalledByLoop
    /\ Len(moods[resp.user]) = 2 /\ Len(moods[resp.other]) = 1
    /\ moods[resp.user][1].mood_score # moods[resp.user][2].mood_score
    /\ 0 < resp.scores.mood_score /\ resp.scores.mood_score < UNIT

\* C17: mood_category is the Jaccard similarity of the two sets of categories
\* that occur in the loaded entries, and 0 when one of the sets is empty
C17_MoodCategoryJaccard ==
    IsScore =>
        LET a == CategoriesOf(resp.user)
            b == CategoriesOf(resp.other)
        IN  IF a = {} \/ b = {} THEN resp.scores.mood_category = 0
            ELSE resp.scores.mood_category * Cardinality(a \cup b)
                    = UNIT * Cardinality(a \cap b)

\* a history that holds one category twice against one that holds it and
\* another category: 1/2
C17_Witness ==
    /\ CalledByLoop
    /\ Len(moods[resp.user]) = 2
    /\ Cardinality(CategoriesOf(resp.user)) = 1
    /\ Cardinality(CategoriesOf(resp.other)) = 2
    /\ 2 * resp.scores.mood_category = UNIT

\* the items the lists k of users u and c have in common; none without two rows
CommonItems(u, c, k) ==
    IF ListsOf(u) # None /\ ListsOf(c) # None
    THEN Range(ListsOf(u)[1][k]) \cap Range(ListsOf(c)[1][k])
    ELSE {}

\* e.avg_mood_score is the average of candidate c's scores rounded to one
\* decimal when requester u and c both have entries, and None otherwise
AvgMoodRounded(e, u, c) ==
    LET other_moods == RecentMoods(moods, c)
        n == Len(other_moods)
    IN  IF RecentMoods(moods, u) # <<>> /\ n > 0
        THEN /\ e.avg_mood_score # None
             \* |tenths / 10 - sum / n| <= 1/20
             /\ 2 * Abs(e.avg_mood_score[1] * n - 10 * SumScores(other_moods)) <= n
        ELSE e.avg_mood_score = None

\* C18: every returned scored candidate carries the common mood categories, for
\* music, activities and cuisines a part of the common items of at most 5 (all
\* of them when there are 5 or fewer), and the candidate's rounded average
C18_SharedAttributes ==
    (IsRecs /\ resp.path = "scored") =>
        \A i \in DOMAIN resp.result :
            LET e == resp.result[i]
                shared == [music |-> e.shared_music, activities |-> e.shared_activities,
                           cuisines |-> e.shared_cuisines]
            IN  /\ e.shared_mood_categories = CategoriesOf(resp.user) \cap CategoriesOf(e.user)
                /\ \A k \in PrefKeys :
                      LET common == CommonItems(resp.user, e.user, k)
                      IN  /\ shared[k] \subseteq common
                          /\ Cardinality(shared[k]) <= 5
                          /\ Cardinality(common) <= 5 => shared[k] = common
                /\ AvgMoodRounded(e, resp.user, e.user)

\* a candidate who shares six cuisines, one music item and two mood categories
\* with the requester and whose average 56.66... is reported as 56.7
C18_Witness ==
    /\ IsRecs /\ resp.path = "scored"
    /\ \E i \in DOMAIN resp.result :
          LET e == resp.result[i]
          IN  /\ Cardinality(CommonItems(resp.user, e.user, "cuisines")) = 6
              /\ Cardinality(e.shared_cuisines) = 5
              /\ e.shared_music = {"Italian"}
              /\ Cardinality(e.shared_mood_categories) = 2
              /\ e.avg_mood_score = Some(567)

\* C19: a recommendation request, on the scored and on the cold-start path and
\* with an empty result as well, changes no mood entry, preferences row,
\* friendship or friend request, so the list it returned is still one the
\* tables produce for the same requester and limit
C19_RecommendIsPureRead ==
    /\ [][resp'.kind = "recs" => UNCHANGED <<friends, requests, moods, prefs>>]_vars
    /\ [](IsRecs => resp.result \in PossibleResults(friends, requests, moods, prefs,
                                                    resp.user, resp.limit))

\* a scored request answered after a friend request was stored
C19_Witness ==
    /\ IsRecs /\ resp.path = "scored"
    /\ resp.result # <<>>
    /\ requests # {}
    /\ PrefsOf(prefs, resp.user) = {}

\* C20: every stored mood entry has a score from 0 to 100
C20_StoredScoresInRange ==
    \A u \in Users : \A i \in 1..Len(moods[u]) :
        0 <= moods[u][i].mood_score /\ moods[u][i].mood_score <= 100

(***************************************************************************)
(* Properties of the mood handlers                                         *)
(***************************************************************************)
\* the mapping as the claim words it; it names no label outside 0..100
RangeLabels(score) ==
    (IF 0 <= score /\ score <= 40 THEN {"Stressed/Anxious"} ELSE {})
        \cup (IF 41 <= score /\ score <= 60 THEN {"Tired/Low Energy"} ELSE {})
        \cup (IF 61 <= score /\ score <= 80 THEN {"Happy/Neutral"} ELSE {})
        \cup (IF 81 <= score /\ score <= 100 THEN {"Energetic/Excited"} ELSE {})

\* C21: every score from 0 to 100 has exactly one of the four labels, which is
\* the category get_category_from_score computes; an entry created without a
\* category, and an entry whose score an update changes without supplying a
\* category, is stored with the label of its score
C21_CategoryFollowsScore ==
    /\ \A score \in 0..100 : RangeLabels(score) = {get_category_from_score(score)}
    /\ [][\A u \in Users, sc \in PostScores :
            (CreateMood(u, sc, None) /\ moods' # moods) =>
                RangeLabels(moods'[u][1].mood_score) = {moods'[u][1].mood_category}]_vars
    /\ [][\A u \in Users, ref \in MoodRefs, sc \in PutScores \ {None} :
            (UpdateMood(u, ref[1], ref[2], sc, None) /\ MoodFound(u, ref[1], ref[2])) =>
                /\ moods'[ref[1]][ref[2]].mood_score = sc[1].value
                /\ RangeLabels(sc[1].value) = {moods'[ref[1]][ref[2]].mood_category}]_vars

(***************************************************************************)
(* Properties of the friends and friend_requests tables                    *)
(***************************************************************************)
\* the two users of a friends row
PairOf(f) == {f.user_id1, f.user_id2}

\* C22: no friends row relates a user to itself, every row has the smaller id
\* first, no two rows are for the same pair of users, and creating a friendship
\* for a pair that has a row returns None and leaves the table as it is, in
\* whichever order the ids are given
C22_FriendRowsCanonical ==
    /\ [](\A f \in friends :
            /\ f.user_id1 # f.user_id2
            /\ f.user_id1 < f.user_id2
            /\ \A g \in friends : PairOf(f) = PairOf(g) => f = g)
    /\ [][\A a, b \in Users :
            (CreateFriendship(a, b) /\ \E f \in friends : PairOf(f) = {a, b}) =>
                (friends' = friends /\ resp'.result = "None")]_vars

\* a second creation for a pair of friends, with the larger id given first
C22_Witness ==
    /\ resp.kind = "friend_create"
    /\ resp.result = "None"
    /\ resp.user_id1 > resp.user_id2
    /\ \E f \in friends : PairOf(f) = {resp.user_id1, resp.user_id2}

\* C23: no friend request is from a user to itself, no two rows have the same
\* sender and receiver, every status is pending, accepted or rejected, and a
\* request a user sends to itself is answered with 400 and creates no row
C23_RequestRowsWellFormed ==
    /\ [](\A r \in requests :
            /\ r.sender_id # r.receiver_id
            /\ r.status \in {"pending", "accepted", "rejected"}
            /\ \A q \in requests :
                  (q.sender_id = r.sender_id /\ q.receiver_id = r.receiver_id) => q = r)
    /\ [][\A u \in Users :
            SendRequest(u, u) => (resp'.code = 400 /\ requests' = requests)]_vars

\* a request to oneself refused while the table holds an accepted and a
\* rejected row
C23_Witness ==
    /\ resp.kind = "send"
    /\ resp.code = 400
    /\ resp.message = "Users cannot send friend requests to themselves"
    /\ \E r, q \in requests : r.status = "accepted" /\ q.status = "rejected"

ActionInputs == {"accept", "reject", "block"}

\* the status of the row from s to r; None when there is no row
StatusOf(R, s, r) ==
    IF \E q \in R : q.sender_id = s /\ q.receiver_id = r
    THEN Some((CHOOSE q \in R : q.sender_id = s /\ q.receiver_id = r).status)
    ELSE None

\* C24: the status of a request changes only from pending to accepted or
\* rejected and only in an accept or reject by its receiver; on an existing
\* request an accept or reject by another user is refused with 403, one by the
\* receiver on a processed request with 400 'already processed', any other
\* action with 400, and a refused action changes no request and no friendship
C24_StatusOnlyByReceiver ==
    /\ [][\A k \in RequestKeys :
            LET old == StatusOf(requests, k[1], k[2])
                new == StatusOf(requests', k[1], k[2])
            IN  (old # None /\ new # None /\ old # new) =>
                    /\ old = Some("pending")
                    /\ new \in {Some("accepted"), Some("rejected")}
                    /\ \E a \in {"accept", "reject"} : RequestAction(k[2], k[1], k[2], a)
                    /\ resp'.code = 200]_vars
    /\ [][\A u \in Users, k \in RequestKeys, a \in ActionInputs :
            (RequestAction(u, k[1], k[2], a) /\ StatusOf(requests, k[1], k[2]) # None) =>
                LET other == u # k[2]
                    processed == StatusOf(requests, k[1], k[2]) # Some("pending")
                    invalid == a \notin {"accept", "reject"}
                IN  /\ (other \/ processed \/ invalid) =>
                          /\ resp'.code \in {400, 403}
                          /\ requests' = requests /\ friends' = friends
                    /\ invalid => resp'.code = 400
                    /\ (other /\ ~invalid) => resp'.code = 403
                    /\ (processed /\ ~other /\ ~invalid) =>
                          /\ resp'.code = 400
                          /\ resp'.message = "Friend request already processed"]_vars

\* the receiver acts again on a request that is already rejected
C24_Witness ==
    /\ resp.kind = "action"
    /\ resp.code = 400
    /\ resp.message = "Friend request already processed"
    /\ \E r \in requests : r.status = "rejected"

RowsBetween(a, b) ==
    {r \in requests : \/ r.sender_id = a /\ r.receiver_id = b
                      \/ r.sender_id = b /\ r.receiver_id = a}

\* a send from a to b was refused with this code and changed no request row
SendRefused(code) == resp'.code = code /\ requests' = requests

\* a send from a to b created the one row (a, b, pending)
SendCreated(a, b) ==
    /\ resp'.code = 201
    /\ [sender_id |-> a, receiver_id |-> b, status |-> "pending"] \notin requests
    /\ requests' = requests \cup {[sender_id |-> a, receiver_id |-> b, status |-> "pending"]}

\* C26 as stated: a send from A to B is refused without touching a row when B
\* does not exist (404), A and B are friends (400) or a pending request exists
\* between them (400), and in every other case it creates the row (A, B, pending)
C26_SendRefusedOrCreates ==
    [][\A a \in Users, b \in 1..GhostId :
          SendRequest(a, b) =>
              IF b \notin Users THEN SendRefused(404)
              ELSE IF PairOf(Friend(a, b)) \in {PairOf(f) : f \in friends} THEN SendRefused(400)
              ELSE IF \E r \in RowsBetween(a, b) : r.status = "pending" THEN SendRefused(400)
              ELSE SendCreated(a, b)]_vars

\* C26 amended: the same refusals, and the row (A, B, pending) is created in
\* every other case in which A is not B and no row from A to B exists
C26_SendRefusedOrCreatesFresh ==
    [][\A a \in Users, b \in 1..GhostId :
          SendRequest(a, b) =>
              IF b \notin Users THEN SendRefused(404)
              ELSE IF PairOf(Friend(a, b)) \in {PairOf(f) : f \in friends} THEN SendRefused(400)
              ELSE IF \E r \in RowsBetween(a, b) : r.status = "pending" THEN SendRefused(400)
              ELSE IF a # b /\ ~\E r \in requests : r.sender_id = a /\ r.receiver_id = b
                   THEN SendCreated(a, b)
              ELSE TRUE]_vars

\* a request was created towards a user whose own earlier request to the
\* sender is no longer pending
C26_Witness ==
    /\ resp.kind = "send"
    /\ resp.code = 201
    /\ \E r, q \in requests :
          /\ r.status = "pending"
          /\ q.sender_id = r.receiver_id /\ q.receiver_id = r.sender_id
          /\ q.status = "rejected"

\* C27: no two users are friends while a request between them, in either
\* direction, is pending
C27_NeverFriendsAndPending ==
    \A f \in friends : \A r \in requests :
        ({r.sender_id, r.receiver_id} = PairOf(f)) => r.status # "pending"

\* a send between two friends, whose request was accepted, has been refused
C27_Witness ==
    /\ resp.kind = "send"
    /\ resp.message = "Already friends with this user"
    /\ \E f \in friends : \E r \in requests :
          {r.sender_id, r.receiver_id} = PairOf(f) /\ r.status = "accepted"

\* C29: while a row from A to B exists, in any status, a send from A to B
\* fails and changes no row; a cancel by A deletes that row whatever its status
\* and leaves the friendships alone; and the row goes away in no other step
C29_ResendOnlyAfterCancel ==
    [][\A k \in RequestKeys :
          (StatusOf(requests, k[1], k[2]) # None) =>
              /\ SendRequest(k[1], k[2]) =>
                    /\ resp'.code \in {400, 500}
                    /\ requests' = requests
                    /\ friends' = friends
              /\ CancelRequest(k[1], k[1], k[2]) =>
                    /\ resp'.code = 200
                    /\ requests' = {r \in requests :
                                      ~(r.sender_id = k[1] /\ r.receiver_id = k[2])}
                    /\ friends' = friends
              /\ (StatusOf(requests', k[1], k[2]) = None) =>
                    CancelRequest(k[1], k[1], k[2])]_vars

\* a send has failed on the accepted request of a friendship that was removed
C29_Witness ==
    /\ resp.kind = "send"
    /\ resp.code = 500
    /\ resp.message = "Failed to create friend request"
    /\ \E r \in requests :
          /\ r.status = "accepted"
          /\ Friend(r.sender_id, r.receiver_id) \notin friends

\* C28: whatever the interleaving of send-request calls, no two users have a
\* pending request in each direction
C28_NoCrossedPending ==
    \A r, q \in requests :
        (r.status = "pending" /\ q.status = "pending") =>
            ~(q.sender_id = r.receiver_id /\ q.receiver_id = r.sender_id)

\* the users in the list a recommendation call has returned
ReturnedUsers ==
    {resp["recommend"].result[i].user : i \in DOMAIN resp["recommend"].result}

\* C30: a recommendation call for A that has returned, with an accept running
\* beside it, lists no user who is A's friend or has a pending request with A
C30_NeverReturnsLinkedUser ==
    (resp["recommend"].kind = "recs" /\ resp["recommend"].pc = "done") =>
        \A b \in Users :
            (\/ are_friends(friends, resp["recommend"].user, b)
             \/ has_pending_request(requests, resp["recommend"].user, b))
                => b \notin ReturnedUsers
====
